---- MODULE Spec2Model ----
(***************************************************************************)
(* vtadmin API (go/vt/vtadmin/api.go): the cluster registry and the        *)
(* fan-out aggregate reads GetGates, GetKeyspaces, GetSchemas, GetTablets  *)
(* and GetTablet.  One request is served at a time; its per-cluster        *)
(* goroutines, and the per-keyspace goroutines nested in them, interleave  *)
(* freely.  Every remote call may fail.                                    *)
(*                                                                         *)
(* Spec        the aggregate reads, one request after the other            *)
(* SpecPick    getSchemasForKeyspace on arbitrary tablet lists             *)
(* SpecTwice   an aggregate read served twice                              *)
(* SpecNewAPI  NewAPI on arbitrary cluster lists, then GetClusters         *)
(* SpecExplain two overlapping VTExplain calls                             *)
(*                                                                         *)
(* vtctldclient reparent commands (go/cmd/vtctldclient/internal/command/   *)
(* reparents.go):                                                          *)
(*                                                                         *)
(* SpecReparent one run of one of the four reparent commands               *)
(***************************************************************************)
EXTENDS Integers, Sequences, FiniteSets, Bags, TLC

\* longest cluster-id filter of a request
MaxFilterLen == 2

\* longest tablet list handed to getSchemasForKeyspace in SpecPick
MaxTablets == 3

\* longest cluster-id filter of a request that is made twice in SpecTwice
MaxRepeatFilterLen == 1

\* longest cluster list handed to NewAPI in SpecNewAPI
MaxConfigLen == 3

\* most events a reparent response carries in SpecReparent
MaxEvents == 2

(***************************************************************************)
(* The backends.  Three clusters; what each remote endpoint answers when   *)
(* the call succeeds is fixed for a whole behaviour.                       *)
(***************************************************************************)
ClusterA == [ID |-> "c1", Name |-> "A"]
ClusterB == [ID |-> "c2", Name |-> "B"]
ClusterC == [ID |-> "c3", Name |-> "C"]
AllClusters == {ClusterA, ClusterB, ClusterC}

\* the order of cluster identifiers (Go compares the strings bytewise)
IDRank(id) == CASE id = "c1" -> 1 [] id = "c2" -> 2 [] id = "c3" -> 3 [] OTHER -> 4

\* identifiers a request may name: the configured ones and an unknown one
FilterIDs == {"c1", "c2", "c3", "zz"}
Filters == UNION {[1..n -> FilterIDs] : n \in 0..MaxFilterLen}

\* hostnames a GetTablet request may name
Hostnames == {"h0", "h1", "h2", "h3"}

SERVING == "SERVING"
NOT_SERVING == "NOT_SERVING"

Tablet(c, alias, host, ks, state) ==
    [Cluster |-> c, Alias |-> alias, Hostname |-> host, Keyspace |-> ks, State |-> state]

\* c.GetTablets: the tablets of a cluster, in the order the backend lists them
TabletsOf(c) ==
    CASE c.Name = "A" -> << Tablet(c, "a1", "h1", "ks1", SERVING),
                            Tablet(c, "a2", "h2", "ks1", SERVING),
                            Tablet(c, "a3", "h2", "ks1", NOT_SERVING),
                            Tablet(c, "a4", "h3", "ks2", NOT_SERVING) >>
      [] c.Name = "C" -> << Tablet(c, "z1", "h3", "ks3", SERVING),
                            Tablet(c, "z2", "h4", "ks3", NOT_SERVING) >>
      [] OTHER -> << >>

\* c.Vtctld.GetKeyspaces: the keyspaces of a cluster
KeyspacesOf(c) ==
    CASE c.Name = "A" -> << "ks1", "ks2" >>
      [] c.Name = "C" -> << "ks3" >>
      [] OTHER -> << >>

\* c.Vtctld.FindAllShardsInKeyspace: the shards of a keyspace
ShardsOf(c, ks) == IF ks \in {"ks1", "ks3"} THEN << "-80", "80-" >> ELSE << "0" >>

\* c.Discovery.DiscoverVTGates: the gates of a cluster
GatesOf(c) ==
    CASE c.Name = "A" -> << "g1", "g2" >>
      [] c.Name = "B" -> << "g3" >>
      [] OTHER -> << >>

\* the table definitions of the schema of a tablet
TablesOf(alias) ==
    CASE alias = "a1" -> << "t1" >>
      [] alias = "a2" -> << "t1", "t2" >>
      [] OTHER -> << >>

\* the shapes in which a schema without tables can arrive: a response with
\* an empty list, a response whose Schema is nil, a nil response
EmptyShapes == {"ok", "noschema", "nil"}

\* c.Vtctld.GetSchema: the response for a tablet alias
SchemaOf(alias, shape) ==
    IF TablesOf(alias) = << >>
    THEN [resp |-> shape, tables |-> << >>]
    ELSE [resp |-> "ok", tables |-> TablesOf(alias)]

(***************************************************************************)
(* Errors.  Every error value is a record of one shape; its causes are the *)
(* failed remote calls it reports.  An error recorder is the bag of the    *)
(* errors recorded in it: the order of recording is not kept.              *)
(***************************************************************************)
NoError == [code |-> "OK", kind |-> "", causes |-> EmptyBag, ids |-> << >>]

Cause(c, call, arg) == [c |-> c.Name, call |-> call, arg |-> arg]

\* the error a failed remote call returns
RemoteError(c, call, arg) ==
    [code |-> "UNKNOWN", kind |-> "remote", causes |-> SetToBag({Cause(c, call, arg)}),
     ids |-> << >>]

\* er.RecordError(err)
RecordError(errs, err) == errs (+) SetToBag({err})

RECURSIVE Causes(_, _)
Causes(errs, left) ==
    IF left = {} THEN EmptyBag
    ELSE LET e == CHOOSE x \in left : TRUE IN
         [x \in DOMAIN e.causes |-> e.causes[x] * errs[e]] (+) Causes(errs, left \ {e})

\* er.Error(): the one combined error of everything recorded
AllErrors(errs) ==
    [code |-> "UNKNOWN", kind |-> "aggregate", causes |-> Causes(errs, BagToSet(errs)), ids |-> << >>]

\* fault: a recorder that never reports what it holds
HasErrorsNever(errs) == FALSE

\* er.HasErrors()
HasErrors(errs) == errs # EmptyBag

(***************************************************************************)
(* Synchronisation primitives.                                             *)
(***************************************************************************)
NoHolder == 0

\* fault: a Lock() that does not wait for the holder
LockNeverBlocks(holder) == TRUE

\* m.Lock() returns only when nobody holds the mutex
LockFree(holder) == holder = NoHolder

\* fault: a Wait() that does not wait for the counter
WaitNeverBlocks(n) == TRUE

\* wg.Wait() returns only when the counter is back to zero
WaitOver(n) == n = 0

(***************************************************************************)
(* Cluster registry.                                                       *)
(***************************************************************************)
Range(s) == {s[i] : i \in DOMAIN s}

Perms(S) == {s \in [1..Cardinality(S) -> S] : Range(s) = S}

RECURSIVE Insert(_, _)
Insert(c, s) ==
    IF s = << >> THEN << c >>
    ELSE IF IDRank(c.ID) < IDRank(Head(s).ID) THEN << c >> \o s
    ELSE << Head(s) >> \o Insert(c, Tail(s))

RECURSIVE SortByID(_)
SortByID(s) == IF s = << >> THEN << >> ELSE Insert(Head(s), SortByID(Tail(s)))

\* the last cluster of the list with this identifier wins the map entry
LastWithID(s, id) ==
    s[CHOOSE i \in DOMAIN s : s[i].ID = id /\ \A j \in DOMAIN s : s[j].ID = id => j <= i]

NewAPI(cs) ==
    [clusters |-> SortByID(cs),
     clusterMap |-> [id \in {c.ID : c \in Range(cs)} |-> LastWithID(cs, id)]]

\* the cluster lists NewAPI is given
Configs == Perms(AllClusters)

VARIABLES
    api,        \* the registry: clusters (sorted list) and clusterMap
    op,         \* the operation being served
    req,        \* its request: ClusterIds, Hostname
    pc,         \* the handler's position: idle, launch, done
    clusters,   \* handler local: the resolved clusters
    ids,        \* handler local: the search scope (GetTablet)
    next,       \* handler local: the cluster the launch loop is at
    wg,         \* handler local: sync.WaitGroup counter
    er,         \* handler local: concurrency.AllErrorRecorder
    m,          \* handler local: sync.Mutex holder
    acc,        \* handler local: the result accumulator
    tasks,      \* the per-cluster goroutines with their locals
    rpcs,       \* history: remote calls issued by the request
    failures,   \* history: remote calls of the request that failed
    ret,        \* what the handler returned
    pick,       \* SpecPick: input and output of getSchemasForKeyspace
    prev,       \* SpecTwice: the outcome of the first of two equal requests
    reg,        \* SpecNewAPI: a registry built from an arbitrary cluster list
    xp,         \* SpecExplain: the frame of each VTExplain call
    eng,        \* SpecExplain: the state of the vtexplain package
    cmd         \* SpecReparent: one run of a vtctldclient reparent command

vars == << api, op, req, pc, clusters, ids, next, wg, er, m, acc, tasks, rpcs, failures, ret,
           pick, prev, reg, xp, eng, cmd >>

\* what the aggregate reads never touch
side == << pick, prev, reg, xp, eng, cmd >>

NoRet == [nil |-> TRUE, val |-> << >>, err |-> NoError]
NoPick == [tablets |-> << >>, ks |-> "", called |-> FALSE, rpcs |-> {}, ss |-> << >>, err |-> NoError]

RECURSIVE KnownClusters(_, _)
KnownClusters(cmap, fids) ==
    IF fids = << >> THEN << >>
    ELSE IF Head(fids) \in DOMAIN cmap
         THEN << cmap[Head(fids)] >> \o KnownClusters(cmap, Tail(fids))
         ELSE KnownClusters(cmap, Tail(fids))

\* fault: the configured clusters the filter names, in registry order
getClustersInRegistryOrder(a, fids, order) ==
    IF Len(fids) = 0
    THEN [clusters |-> a.clusters, ids |-> order]
    ELSE [clusters |-> SelectSeq(a.clusters, LAMBDA c : c.ID \in Range(fids)), ids |-> fids]

\* fault: every cluster when the filter resolves to none
getClustersOrAll(a, fids, order) ==
    IF KnownClusters(a.clusterMap, fids) = << >>
    THEN [clusters |-> a.clusters, ids |-> order]
    ELSE [clusters |-> KnownClusters(a.clusterMap, fids), ids |-> fids]

\* order: the order in which Go happens to iterate over clusterMap
getClustersForRequest(a, fids, order) ==
    IF Len(fids) = 0
    THEN [clusters |-> a.clusters, ids |-> order]
    ELSE [clusters |-> KnownClusters(a.clusterMap, fids), ids |-> fids]

\* the orders a range over clusterMap can produce; one stands for all when
\* the caller discards the identifiers
MapOrders(cmap, observed) ==
    IF observed THEN Perms(DOMAIN cmap)
    ELSE {CHOOSE s \in Perms(DOMAIN cmap) : TRUE}

(***************************************************************************)
(* Goroutine records.                                                      *)
(***************************************************************************)
NewTask(c, start) ==
    [pc |-> start, c |-> c, res |-> << >>, tmp |-> << >>, tablets |-> << >>,
     resp |-> << >>, knext |-> 1, kwg |-> 0, km |-> NoHolder, kacc |-> << >>,
     ker |-> EmptyBag, kt |-> << >>]

NewKTask(ks) == [pc |-> "call", ks |-> ks, res |-> << >>, tmp |-> << >>]

FirstPc(o) == IF o = "GetKeyspaces" THEN "dial" ELSE "call"

(***************************************************************************)
(* Initial values.                                                         *)
(***************************************************************************)
NoPrev == [runs |-> 0, nil |-> TRUE, val |-> EmptyBag, clean |-> FALSE]

NoReg == [built |-> FALSE, input |-> << >>, clusters |-> << >>, clusterMap |-> << >>,
          listed |-> FALSE, out |-> << >>, rpcs |-> {}, err |-> NoError]

\* the callers of VTExplain; their calls overlap freely
Callers == {"p", "q"}

\* the three goroutines of a VTExplain call, named after the variable each
\* one is responsible for
ExplainTasks == {"schema", "srvVSchema", "shardMap"}

\* "var ( srvVSchema string; schema string; shardMap string )"
NoSlots == [t \in ExplainTasks |-> << >>]

NoRequest == [Cluster |-> "", Keyspace |-> "", Sql |-> ""]

\* the frame of a VTExplain call that has not started
NewCall ==
    [pc |-> "idle", req |-> NoRequest, cid |-> "", tablet |-> "", wg |-> 0, er |-> EmptyBag,
     slots |-> NoSlots, tasks |-> [t \in ExplainTasks |-> "none"],
     wrote |-> [t \in ExplainTasks |-> {}], lacks |-> FALSE, read |-> FALSE,
     inited |-> FALSE, ran |-> FALSE,
     rpcs |-> {}, failures |-> {}, ret |-> NoRet]

\* the vtexplain package before any Init
NoEngine == [inited |-> FALSE, srvVSchema |-> << >>, schema |-> << >>, shardMap |-> << >>]

\* the flags and positional arguments of a reparent command, all unset
NoArgs == [ksShard |-> "", alias |-> "", newPrimary |-> "", ignore |-> << >>, force |-> FALSE]

\* "resp" as the client hands it back: a nil pointer, or a response with its
\* Events (EmergencyReparentShard, InitShardPrimary) or its fields
\* (ReparentTablet, TabletExternallyReparented)
NilResponse == [nil |-> TRUE, Events |-> << >>, Data |-> ""]

\* a reparent command that has not run: no remote call made, nothing read
\* from a response, nothing written out, nothing returned
NoCmd ==
    [name |-> "", args |-> NoArgs, pc |-> "start", called |-> FALSE, failed |-> FALSE,
     resp |-> NilResponse, read |-> FALSE, printed |-> << >>, ret |-> "", crashed |-> FALSE]

\* no aggregate read is being served
Idle ==
    /\ op = "none"
    /\ req = [ClusterIds |-> << >>, Hostname |-> ""]
    /\ pc = "idle"
    /\ clusters = << >>
    /\ ids = << >>
    /\ next = 1
    /\ wg = 0
    /\ er = EmptyBag
    /\ m = NoHolder
    /\ acc = << >>
    /\ tasks = << >>
    /\ rpcs = {}
    /\ failures = {}
    /\ ret = NoRet

Init ==
    /\ \E cs \in Configs : api = NewAPI(cs)
    /\ Idle
    /\ pick = NoPick
    /\ prev = NoPrev
    /\ reg = NoReg
    /\ xp = [k \in Callers |-> NewCall]
    /\ eng = NoEngine
    /\ cmd = NoCmd

(***************************************************************************)
(* The handler: entry, launch loop, barrier and return.                    *)
(***************************************************************************)
\* fault: the accumulator outlives the call
KeptList(old) == old

\* "var gates []*vtadminpb.VTGate": a handler's accumulator starts out nil
FreshList(old) == << >>

\* entry of a handler up to its launch loop: resolve the clusters, declare
\* the accumulator, the WaitGroup, the recorder and the mutex
Enter(o, fids, host, keepIds) ==
    /\ \E order \in MapOrders(api.clusterMap, keepIds /\ Len(fids) = 0) :
          LET r == getClustersForRequest(api, fids, order) IN
          /\ clusters' = r.clusters
          /\ ids' = IF keepIds THEN r.ids ELSE << >>
    /\ op' = o
    /\ req' = [ClusterIds |-> fids, Hostname |-> host]
    /\ pc' = "launch"
    /\ next' = 1
    /\ wg' = 0
    /\ er' = EmptyBag
    /\ m' = NoHolder
    /\ acc' = FreshList(acc)
    /\ tasks' = << >>
    /\ rpcs' = {}
    /\ failures' = {}
    /\ ret' = NoRet

\* a request arrives while none is being served
Begin(o, fids, host, keepIds) ==
    /\ pc = "idle"
    /\ Enter(o, fids, host, keepIds)
    /\ UNCHANGED << api, side >>

GetGates == \E fids \in Filters : Begin("GetGates", fids, "", FALSE)
GetKeyspaces == \E fids \in Filters : Begin("GetKeyspaces", fids, "", FALSE)
GetSchemas == \E fids \in Filters : Begin("GetSchemas", fids, "", FALSE)
GetTablets == \E fids \in Filters : Begin("GetTablets", fids, "", FALSE)
GetTablet == \E fids \in Filters, host \in Hostnames : Begin("GetTablet", fids, host, TRUE)

\* one iteration of "for _, c := range clusters { wg.Add(1); go func(c) ... }"
Launch ==
    /\ pc = "launch"
    /\ next <= Len(clusters)
    /\ wg' = wg + 1
    /\ tasks' = Append(tasks, NewTask(clusters[next], FirstPc(op)))
    /\ next' = next + 1
    /\ UNCHANGED << api, op, req, pc, clusters, ids, er, m, acc, rpcs, failures, ret, side >>

\* wg.Wait() passed; what the list handlers return
ListReturn(o) ==
    /\ op = o
    /\ pc = "launch"
    /\ next > Len(clusters)
    /\ WaitOver(wg)
    /\ ret' = IF HasErrors(er)
              THEN [nil |-> TRUE, val |-> << >>, err |-> AllErrors(er)]
              ELSE [nil |-> FALSE, val |-> acc, err |-> NoError]
    /\ pc' = "done"
    /\ UNCHANGED << api, op, req, clusters, ids, next, wg, er, m, acc, tasks, rpcs, failures, side >>

GetGatesReturn == ListReturn("GetGates")
GetKeyspacesReturn == ListReturn("GetKeyspaces")
GetSchemasReturn == ListReturn("GetSchemas")
GetTabletsReturn == ListReturn("GetTablets")

\* vterrors.Errorf(vtrpcpb.Code_NOT_FOUND, "%s: ...", errors.ErrNoTablet, ...)
NoTabletError(host, scope) ==
    [code |-> "NOT_FOUND", kind |-> "ErrNoTablet", causes |-> EmptyBag, ids |-> scope]

\* vterrors.Errorf(vtrpcpb.Code_NOT_FOUND, "%s: ...", errors.ErrAmbiguousTablet, ...)
AmbiguousTabletError(host, scope) ==
    [code |-> "NOT_FOUND", kind |-> "ErrAmbiguousTablet", causes |-> EmptyBag, ids |-> scope]

\* the decision of GetTablet after the barrier
TabletDecision(errs, found, host, scope) ==
    IF HasErrors(errs) THEN [nil |-> TRUE, val |-> << >>, err |-> AllErrors(errs)]
    ELSE IF Len(found) = 0 THEN [nil |-> TRUE, val |-> << >>, err |-> NoTabletError(host, scope)]
    ELSE IF Len(found) = 1 THEN [nil |-> FALSE, val |-> << found[1] >>, err |-> NoError]
    ELSE [nil |-> TRUE, val |-> << >>, err |-> AmbiguousTabletError(host, scope)]

GetTabletReturn ==
    /\ op = "GetTablet"
    /\ pc = "launch"
    /\ next > Len(clusters)
    /\ WaitOver(wg)
    /\ ret' = TabletDecision(er, acc, req.Hostname, ids)
    /\ pc' = "done"
    /\ UNCHANGED << api, op, req, clusters, ids, next, wg, er, m, acc, tasks, rpcs, failures, side >>

(***************************************************************************)
(* Steps shared by the per-cluster goroutines.                             *)
(***************************************************************************)
Live(i) == i \in DOMAIN tasks

\* the goroutine records err and returns; the deferred wg.Done() runs
TaskFails(i, c, call, arg) ==
    /\ rpcs' = rpcs \cup {Cause(c, call, arg)}
    /\ failures' = failures \cup {Cause(c, call, arg)}
    /\ er' = RecordError(er, RemoteError(c, call, arg))
    /\ tasks' = [tasks EXCEPT ![i].pc = "done"]
    /\ wg' = wg - 1
    /\ UNCHANGED << m, acc >>

\* m.Lock(), then the append reads the accumulator
Lock(i) ==
    /\ Live(i)
    /\ tasks[i].pc = "lock"
    /\ LockFree(m)
    /\ m' = i
    /\ tasks' = [tasks EXCEPT ![i].pc = "cs", ![i].tmp = acc]
    /\ UNCHANGED << api, op, req, pc, clusters, ids, next, wg, er, acc, rpcs, failures, ret, side >>

\* the append writes the accumulator back; m.Unlock(); deferred wg.Done()
AppendUnlock(i) ==
    /\ Live(i)
    /\ tasks[i].pc = "cs"
    /\ acc' = tasks[i].tmp \o tasks[i].res
    /\ m' = NoHolder
    /\ wg' = wg - 1
    /\ tasks' = [tasks EXCEPT ![i].pc = "done", ![i].tmp = << >>]
    /\ UNCHANGED << api, op, req, pc, clusters, ids, next, er, rpcs, failures, ret, side >>

(***************************************************************************)
(* GetGates, GetTablets, GetTablet: one remote call per cluster.           *)
(***************************************************************************)
GateItems(c) == [k \in DOMAIN GatesOf(c) |-> [Cluster |-> c, Hostname |-> GatesOf(c)[k]]]

GatesDiscover(i) ==
    /\ Live(i)
    /\ op = "GetGates"
    /\ tasks[i].pc = "call"
    /\ LET c == tasks[i].c IN
       \/ TaskFails(i, c, "DiscoverVTGates", "")
       \/ /\ rpcs' = rpcs \cup {Cause(c, "DiscoverVTGates", "")}
          /\ tasks' = [tasks EXCEPT ![i].pc = "lock", ![i].res = GateItems(c)]
          /\ UNCHANGED << failures, er, wg, m, acc >>
    /\ UNCHANGED << api, op, req, pc, clusters, ids, next, ret, side >>

TabletsList(i) ==
    /\ Live(i)
    /\ op = "GetTablets"
    /\ tasks[i].pc = "call"
    /\ LET c == tasks[i].c IN
       \/ TaskFails(i, c, "GetTablets", "")
       \/ /\ rpcs' = rpcs \cup {Cause(c, "GetTablets", "")}
          /\ tasks' = [tasks EXCEPT ![i].pc = "lock", ![i].res = TabletsOf(c)]
          /\ UNCHANGED << failures, er, wg, m, acc >>
    /\ UNCHANGED << api, op, req, pc, clusters, ids, next, ret, side >>

\* the tablets of ts with this hostname, in order
RECURSIVE FoundTablets(_, _)
FoundTablets(ts, host) ==
    IF ts = << >> THEN << >>
    ELSE IF Head(ts).Hostname = host
         THEN << Head(ts) >> \o FoundTablets(Tail(ts), host)
         ELSE FoundTablets(Tail(ts), host)

TabletFind(i) ==
    /\ Live(i)
    /\ op = "GetTablet"
    /\ tasks[i].pc = "call"
    /\ LET c == tasks[i].c IN
       \/ TaskFails(i, c, "GetTablets", "")
       \/ /\ rpcs' = rpcs \cup {Cause(c, "GetTablets", "")}
          /\ tasks' = [tasks EXCEPT ![i].pc = "lock",
                                    ![i].res = FoundTablets(TabletsOf(c), req.Hostname)]
          /\ UNCHANGED << failures, er, wg, m, acc >>
    /\ UNCHANGED << api, op, req, pc, clusters, ids, next, ret, side >>

(***************************************************************************)
(* GetKeyspaces: per cluster Dial, GetKeyspaces, then one goroutine per    *)
(* keyspace calling FindAllShardsInKeyspace.                               *)
(***************************************************************************)
LiveK(i, j) == Live(i) /\ j \in DOMAIN tasks[i].kt

\* a remote call of the cluster goroutine that either fails (record, return)
\* or moves the goroutine on
TaskCall(i, call, arg, onSuccess) ==
    LET c == tasks[i].c IN
    \/ TaskFails(i, c, call, arg)
    \/ /\ rpcs' = rpcs \cup {Cause(c, call, arg)}
       /\ tasks' = [tasks EXCEPT ![i] = onSuccess]
       /\ UNCHANGED << failures, er, wg, m, acc >>

KsDial(i) ==
    /\ Live(i)
    /\ op = "GetKeyspaces"
    /\ tasks[i].pc = "dial"
    /\ TaskCall(i, "Dial", "", [tasks[i] EXCEPT !.pc = "getks"])
    /\ UNCHANGED << api, op, req, pc, clusters, ids, next, ret, side >>

KsList(i) ==
    /\ Live(i)
    /\ op = "GetKeyspaces"
    /\ tasks[i].pc = "getks"
    /\ TaskCall(i, "GetKeyspaces", "",
                [tasks[i] EXCEPT !.pc = "spawn", !.resp = KeyspacesOf(tasks[i].c)])
    /\ UNCHANGED << api, op, req, pc, clusters, ids, next, ret, side >>

\* one iteration of "for _, ks := range resp.Keyspaces { kwg.Add(1); go ... }"
Spawn(i) ==
    /\ Live(i)
    /\ tasks[i].pc = "spawn"
    /\ tasks[i].knext <= Len(tasks[i].resp)
    /\ tasks' = [tasks EXCEPT ![i].kwg = @ + 1,
                              ![i].kt = Append(@, NewKTask(tasks[i].resp[tasks[i].knext])),
                              ![i].knext = @ + 1]
    /\ UNCHANGED << api, op, req, pc, clusters, ids, next, wg, er, m, acc, rpcs, failures, ret, side >>

KsSpawn(i) == op = "GetKeyspaces" /\ Spawn(i)

\* kwg.Wait() passed: the cluster goroutine goes on to merge kss
KsJoin(i) ==
    /\ Live(i)
    /\ op = "GetKeyspaces"
    /\ tasks[i].pc = "spawn"
    /\ tasks[i].knext > Len(tasks[i].resp)
    /\ WaitOver(tasks[i].kwg)
    /\ tasks' = [tasks EXCEPT ![i].pc = "lock", ![i].res = tasks[i].kacc]
    /\ UNCHANGED << api, op, req, pc, clusters, ids, next, wg, er, m, acc, rpcs, failures, ret, side >>

KeyspaceItem(c, ks) == [Cluster |-> c, Keyspace |-> ks, Shards |-> ShardsOf(c, ks)]

\* the keyspace goroutine: a failure goes to the recorder of the handler
KsFindShards(i, j) ==
    /\ LiveK(i, j)
    /\ op = "GetKeyspaces"
    /\ tasks[i].kt[j].pc = "call"
    /\ LET c == tasks[i].c
           ks == tasks[i].kt[j].ks
           call == Cause(c, "FindAllShardsInKeyspace", ks) IN
       /\ rpcs' = rpcs \cup {call}
       /\ \/ /\ failures' = failures \cup {call}
             /\ er' = RecordError(er, RemoteError(c, "FindAllShardsInKeyspace", ks))
             /\ tasks' = [tasks EXCEPT ![i].kt[j].pc = "done", ![i].kwg = @ - 1]
          \/ /\ tasks' = [tasks EXCEPT ![i].kt[j].pc = "lock",
                                       ![i].kt[j].res = << KeyspaceItem(c, ks) >>]
             /\ UNCHANGED << failures, er >>
    /\ UNCHANGED << api, op, req, pc, clusters, ids, next, wg, m, acc, ret, side >>

\* km.Lock() / m.Lock() of a keyspace goroutine, then the append reads
KLock(i, j) ==
    /\ LiveK(i, j)
    /\ tasks[i].kt[j].pc = "lock"
    /\ LockFree(tasks[i].km)
    /\ tasks' = [tasks EXCEPT ![i].km = j, ![i].kt[j].pc = "cs",
                              ![i].kt[j].tmp = tasks[i].kacc]
    /\ UNCHANGED << api, op, req, pc, clusters, ids, next, wg, er, m, acc, rpcs, failures, ret, side >>

\* the append writes back; Unlock(); deferred Done()
KAppendUnlock(i, j) ==
    /\ LiveK(i, j)
    /\ tasks[i].kt[j].pc = "cs"
    /\ tasks' = [tasks EXCEPT ![i].kacc = tasks[i].kt[j].tmp \o tasks[i].kt[j].res,
                              ![i].km = NoHolder,
                              ![i].kwg = @ - 1,
                              ![i].kt[j].pc = "done",
                              ![i].kt[j].tmp = << >>]
    /\ UNCHANGED << api, op, req, pc, clusters, ids, next, wg, er, m, acc, rpcs, failures, ret, side >>

(***************************************************************************)
(* GetSchemas: per cluster GetTablets, then getSchemas: Dial,              *)
(* GetKeyspaces, one goroutine per keyspace running getSchemasForKeyspace. *)
(***************************************************************************)
\* fault: the first serving tablet is kept
PickFirst(kt, t) == IF kt = << >> THEN << t >> ELSE kt

\* fault: the state of the tablet is not looked at
PickAnyState(t, ks) == t.Keyspace # ks

\* "if t.Tablet.Keyspace != ks.Name || t.State != SERVING { continue }"
Skipped(t, ks) == t.Keyspace # ks \/ t.State # SERVING

\* "kt = t"
Picked(kt, t) == << t >>

\* the loop over tablets; kt is << >> for the nil pointer
RECURSIVE ServingTablet(_, _, _)
ServingTablet(ts, ks, kt) ==
    IF ts = << >> THEN kt
    ELSE ServingTablet(Tail(ts), ks, IF Skipped(Head(ts), ks) THEN kt ELSE Picked(kt, Head(ts)))

\* fault: an empty list of table definitions is let through
EmptyOnlyIfNil(s) == s.resp = "nil" \/ s.resp = "noschema"

\* "s == nil || s.Schema == nil || len(s.Schema.TableDefinitions) == 0"
NoTables(s) == s.resp = "nil" \/ s.resp = "noschema" \/ Len(s.tables) = 0

SchemaItem(c, ks, s) == [Cluster |-> c, Keyspace |-> ks, TableDefinitions |-> s.tables]

\* dialOk, getOk: whether Dial and GetSchema succeed when they are called;
\* shape: how the schema arrives if it has no tables
getSchemasForKeyspace(c, ks, tablets, dialOk, getOk, shape) ==
    LET kt == ServingTablet(tablets, ks, << >>) IN
    IF kt = << >>
    THEN [rpcs |-> {}, failures |-> {}, ss |-> << >>, err |-> NoError]
    ELSE LET alias == kt[1].Alias
             dial == Cause(c, "Dial", ks)
             get == Cause(c, "GetSchema", alias)
             s == SchemaOf(alias, shape) IN
         IF ~dialOk
         THEN [rpcs |-> {dial}, failures |-> {dial}, ss |-> << >>,
               err |-> RemoteError(c, "Dial", ks)]
         ELSE IF ~getOk
         THEN [rpcs |-> {dial, get}, failures |-> {get}, ss |-> << >>,
               err |-> RemoteError(c, "GetSchema", alias)]
         ELSE IF NoTables(s)
         THEN [rpcs |-> {dial, get}, failures |-> {}, ss |-> << >>, err |-> NoError]
         ELSE [rpcs |-> {dial, get}, failures |-> {}, ss |-> << SchemaItem(c, ks, s) >>,
               err |-> NoError]

ScTablets(i) ==
    /\ Live(i)
    /\ op = "GetSchemas"
    /\ tasks[i].pc = "call"
    /\ TaskCall(i, "GetTablets", "",
                [tasks[i] EXCEPT !.pc = "dial", !.tablets = TabletsOf(tasks[i].c)])
    /\ UNCHANGED << api, op, req, pc, clusters, ids, next, ret, side >>

\* a failure makes getSchemas return the error, which GetSchemas records
ScDial(i) ==
    /\ Live(i)
    /\ op = "GetSchemas"
    /\ tasks[i].pc = "dial"
    /\ TaskCall(i, "Dial", "", [tasks[i] EXCEPT !.pc = "getks"])
    /\ UNCHANGED << api, op, req, pc, clusters, ids, next, ret, side >>

ScList(i) ==
    /\ Live(i)
    /\ op = "GetSchemas"
    /\ tasks[i].pc = "getks"
    /\ TaskCall(i, "GetKeyspaces", "",
                [tasks[i] EXCEPT !.pc = "spawn", !.resp = KeyspacesOf(tasks[i].c)])
    /\ UNCHANGED << api, op, req, pc, clusters, ids, next, ret, side >>

ScSpawn(i) == op = "GetSchemas" /\ Spawn(i)

\* the keyspace goroutine of getSchemas: a failure goes to the recorder of
\* getSchemas, a nil schema is dropped, a schema is kept for the append
ScKeyspace(i, j) ==
    /\ LiveK(i, j)
    /\ op = "GetSchemas"
    /\ tasks[i].kt[j].pc = "call"
    /\ \E dialOk \in BOOLEAN, getOk \in BOOLEAN, shape \in EmptyShapes :
          LET out == getSchemasForKeyspace(tasks[i].c, tasks[i].kt[j].ks,
                                           tasks[i].tablets, dialOk, getOk, shape) IN
          /\ rpcs' = rpcs \cup out.rpcs
          /\ failures' = failures \cup out.failures
          /\ tasks' =
                IF out.err # NoError
                THEN [tasks EXCEPT ![i].ker = RecordError(@, out.err),
                                   ![i].kt[j].pc = "done", ![i].kwg = @ - 1]
                ELSE IF out.ss = << >>
                THEN [tasks EXCEPT ![i].kt[j].pc = "done", ![i].kwg = @ - 1]
                ELSE [tasks EXCEPT ![i].kt[j].pc = "lock", ![i].kt[j].res = out.ss]
    /\ UNCHANGED << api, op, req, pc, clusters, ids, next, wg, er, m, acc, ret, side >>

\* fault: GetSchemas drops the error getSchemas returns
ScJoinSwallows(i) ==
    /\ Live(i)
    /\ op = "GetSchemas"
    /\ tasks[i].pc = "spawn"
    /\ tasks[i].knext > Len(tasks[i].resp)
    /\ WaitOver(tasks[i].kwg)
    /\ IF HasErrors(tasks[i].ker)
       THEN /\ tasks' = [tasks EXCEPT ![i].pc = "done"]
            /\ wg' = wg - 1
       ELSE /\ tasks' = [tasks EXCEPT ![i].pc = "lock", ![i].res = tasks[i].kacc]
            /\ UNCHANGED wg
    /\ UNCHANGED << api, op, req, pc, clusters, ids, next, er, m, acc, rpcs, failures, ret, side >>

\* wg.Wait() of getSchemas passed: it returns its combined error, which
\* GetSchemas records, or its schemas, which GetSchemas goes on to merge
ScJoin(i) ==
    /\ Live(i)
    /\ op = "GetSchemas"
    /\ tasks[i].pc = "spawn"
    /\ tasks[i].knext > Len(tasks[i].resp)
    /\ WaitOver(tasks[i].kwg)
    /\ IF HasErrors(tasks[i].ker)
       THEN /\ er' = RecordError(er, AllErrors(tasks[i].ker))
            /\ tasks' = [tasks EXCEPT ![i].pc = "done"]
            /\ wg' = wg - 1
       ELSE /\ tasks' = [tasks EXCEPT ![i].pc = "lock", ![i].res = tasks[i].kacc]
            /\ UNCHANGED << er, wg >>
    /\ UNCHANGED << api, op, req, pc, clusters, ids, next, m, acc, rpcs, failures, ret, side >>

\* the response is handed to the caller; the handler's frame is gone
Respond ==
    /\ pc = "done"
    /\ op' = "none"
    /\ req' = [ClusterIds |-> << >>, Hostname |-> ""]
    /\ pc' = "idle"
    /\ clusters' = << >>
    /\ ids' = << >>
    /\ next' = 1
    /\ wg' = 0
    /\ er' = EmptyBag
    /\ m' = NoHolder
    /\ acc' = << >>
    /\ tasks' = << >>
    /\ rpcs' = {}
    /\ failures' = {}
    /\ ret' = NoRet
    /\ UNCHANGED << api, side >>

Next ==
    \/ GetGates
    \/ GetKeyspaces
    \/ GetSchemas
    \/ GetTablets
    \/ GetTablet
    \/ Launch
    \/ GetGatesReturn
    \/ GetKeyspacesReturn
    \/ GetSchemasReturn
    \/ GetTabletsReturn
    \/ GetTabletReturn
    \/ Respond
    \/ \E i \in DOMAIN tasks : Lock(i)
    \/ \E i \in DOMAIN tasks : AppendUnlock(i)
    \/ \E i \in DOMAIN tasks : GatesDiscover(i)
    \/ \E i \in DOMAIN tasks : TabletsList(i)
    \/ \E i \in DOMAIN tasks : TabletFind(i)
    \/ \E i \in DOMAIN tasks : KsDial(i)
    \/ \E i \in DOMAIN tasks : KsList(i)
    \/ \E i \in DOMAIN tasks : KsSpawn(i)
    \/ \E i \in DOMAIN tasks : KsJoin(i)
    \/ \E i \in DOMAIN tasks : ScTablets(i)
    \/ \E i \in DOMAIN tasks : ScDial(i)
    \/ \E i \in DOMAIN tasks : ScList(i)
    \/ \E i \in DOMAIN tasks : ScSpawn(i)
    \/ \E i \in DOMAIN tasks : ScJoin(i)
    \/ \E i \in DOMAIN tasks : \E j \in DOMAIN tasks[i].kt : KsFindShards(i, j)
    \/ \E i \in DOMAIN tasks : \E j \in DOMAIN tasks[i].kt : ScKeyspace(i, j)
    \/ \E i \in DOMAIN tasks : \E j \in DOMAIN tasks[i].kt : KLock(i, j)
    \/ \E i \in DOMAIN tasks : \E j \in DOMAIN tasks[i].kt : KAppendUnlock(i, j)

Spec == Init /\ [][Next]_vars

(***************************************************************************)
(* getSchemasForKeyspace on its own, for every tablet list up to           *)
(* MaxTablets and both keyspaces.                                          *)
(***************************************************************************)
AliasAt(k) == CASE k = 1 -> "a1" [] k = 2 -> "a2" [] k = 3 -> "a3" [] OTHER -> "a4"

TabletKinds == {"ks1", "ks2"} \X {SERVING, NOT_SERVING}

PickLists ==
    UNION {{[k \in 1..n |-> Tablet(ClusterA, AliasAt(k), "h1", f[k][1], f[k][2])] :
            f \in [1..n -> TabletKinds]} : n \in 0..MaxTablets}

InitPick ==
    /\ \E cs \in Configs : api = NewAPI(cs)
    /\ Idle
    /\ \E ts \in PickLists, ks \in {"ks1", "ks2"} :
          pick = [NoPick EXCEPT !.tablets = ts, !.ks = ks]
    /\ prev = NoPrev
    /\ reg = NoReg
    /\ xp = [k \in Callers |-> NewCall]
    /\ eng = NoEngine
    /\ cmd = NoCmd

PickCall ==
    /\ ~pick.called
    /\ \E dialOk \in BOOLEAN, getOk \in BOOLEAN, shape \in EmptyShapes :
          LET out == getSchemasForKeyspace(ClusterA, pick.ks, pick.tablets, dialOk, getOk, shape) IN
          pick' = [pick EXCEPT !.called = TRUE, !.rpcs = out.rpcs, !.ss = out.ss,
                               !.err = out.err]
    /\ UNCHANGED << api, op, req, pc, clusters, ids, next, wg, er, m, acc, tasks, rpcs, failures, ret,
                    prev, reg, xp, eng, cmd >>

NextPick == PickCall

SpecPick == InitPick /\ [][NextPick]_vars
(***************************************************************************)
(* VTExplain.  Each caller of Callers makes one call; the calls overlap.   *)
(* A call validates its request, resolves the cluster and a tablet, dials, *)
(* starts three goroutines that each fill one variable, waits for them,    *)
(* and hands the three variables to the vtexplain package.                 *)
(***************************************************************************)
ExplainRequests ==
    [Cluster : {"", "c1", "c3", "zz"}, Keyspace : {"", "ks1", "ks3"}, Sql : {"", "q1"}]

\* t.Tablet.Type of the tablets of the backends
TabletTypeOf(alias) ==
    CASE alias = "a1" -> "MASTER"
      [] alias = "a4" -> "BACKUP"
      [] alias = "z2" -> "RDONLY"
      [] OTHER -> "REPLICA"

\* tablet.Tablet.Alias.Cell
CellOf(alias) == IF alias \in {"z1", "z2"} THEN "zone2" ELSE "zone1"

\* topo.IsInServingGraph
IsInServingGraph(type) == type \in {"MASTER", "REPLICA", "RDONLY"}

\* the predicate VTExplain hands to c.FindTablet
ExplainTablet(t, ks) ==
    /\ t.Keyspace = ks
    /\ IsInServingGraph(TabletTypeOf(t.Alias))
    /\ TabletTypeOf(t.Alias) # "MASTER"
    /\ t.State = SERVING

\* an error that carries a sentinel and a text
ExplainError(kind, text) ==
    [code |-> "UNKNOWN", kind |-> kind,
     causes |-> SetToBag({[c |-> "", call |-> kind, arg |-> text]}), ids |-> << >>]

\* fault: a request without SQL passes validation
ValidateWithoutSql(r) ==
    IF r.Cluster = "" THEN ExplainError("ErrInvalidRequest", "cluster ID is required")
    ELSE IF r.Keyspace = "" THEN ExplainError("ErrInvalidRequest", "keyspace name is required")
    ELSE NoError

\* the three checks VTExplain starts with, in their order
ValidateExplain(r) ==
    IF r.Cluster = "" THEN ExplainError("ErrInvalidRequest", "cluster ID is required")
    ELSE IF r.Keyspace = "" THEN ExplainError("ErrInvalidRequest", "keyspace name is required")
    ELSE IF r.Sql = "" THEN ExplainError("ErrInvalidRequest", "SQL query is required")
    ELSE NoError

\* fault: an unknown cluster reported as a tablet that was not found
UnsupportedAsNoTablet ==
    [code |-> "NOT_FOUND", kind |-> "ErrNoTablet", causes |-> EmptyBag, ids |-> << >>]

\* errors.ErrUnsupportedCluster, returned as it is
ErrUnsupportedCluster ==
    [code |-> "UNKNOWN", kind |-> "ErrUnsupportedCluster", causes |-> EmptyBag, ids |-> << >>]

\* c.FindTablet: the first tablet of the cluster the predicate accepts
FindTablet(c, ks) ==
    LET ts == TabletsOf(c)
        S == {i \in DOMAIN ts : ExplainTablet(ts[i], ks)}
    IN IF S = {} THEN [found |-> FALSE, alias |-> ""]
       ELSE [found |-> TRUE, alias |-> ts[CHOOSE i \in S : \A j \in S : i <= j].Alias]

\* strings.Join(schemas, ";")
RECURSIVE JoinSchemas(_)
JoinSchemas(tables) ==
    IF Len(tables) <= 1 THEN tables
    ELSE << Head(tables), ";" >> \o JoinSchemas(Tail(tables))

\* fmt.Sprintf(`{"%s": %s}`, req.Keyspace, json)
Keyed(ks, json) == << ks, json >>

\* json.Marshal(&ksvs) of the serving vschema of a keyspace
VSchemaJSON(c, ks) == << "vschema", c.Name, ks >>

\* json.Marshal(&vtsm) of the shards by name
ShardsJSON(shards) == Range(shards)

\* fault: every goroutine assigns to the same variable
SlotOfShared(t) == "schema"

\* the variable a goroutine assigns to
SlotOf(t) == t

Failed(err) == [nil |-> TRUE, val |-> << >>, err |-> err]

\* what a VTExplain call never touches
outsideExplain ==
    << api, op, req, pc, clusters, ids, next, wg, er, m, acc, tasks, rpcs, failures, ret,
       pick, prev, reg, cmd >>

\* the cluster of a call past the registry lookup
ClusterOf(k) == api.clusterMap[xp[k].cid]

\* entry of VTExplain: the validation and the registry lookup
VTExplain(k) ==
    /\ xp[k].pc = "idle"
    /\ \A j \in Callers : xp[j].pc # "crashed"
    /\ \E r \in ExplainRequests :
          LET v == ValidateExplain(r) IN
          xp' = [xp EXCEPT ![k] =
                   IF v.kind # NoError.kind
                   THEN [NewCall EXCEPT !.req = r, !.pc = "done", !.ret = Failed(v)]
                   ELSE IF r.Cluster \notin DOMAIN api.clusterMap
                        THEN [NewCall EXCEPT !.req = r, !.pc = "done",
                                             !.ret = Failed(ErrUnsupportedCluster)]
                        ELSE [NewCall EXCEPT !.req = r, !.pc = "find", !.cid = r.Cluster]]
    /\ UNCHANGED << outsideExplain, eng >>

\* a call returns err to its caller
ExReturn(call, err) ==
    [call EXCEPT !.pc = "done", !.ret = Failed(err)]

\* "tablet, err := c.FindTablet(ctx, ...)" and its error return
ExFindTablet(k) ==
    /\ xp[k].pc = "find"
    /\ LET c == ClusterOf(k)
           ks == xp[k].req.Keyspace
           called == [xp[k] EXCEPT !.rpcs = @ \cup {Cause(c, "FindTablet", ks)}]
       IN \E ok \in BOOLEAN :
             xp' = [xp EXCEPT ![k] =
                      IF ~ok
                      THEN ExReturn([called EXCEPT !.failures = @ \cup {Cause(c, "FindTablet", ks)}],
                                    RemoteError(c, "FindTablet", ks))
                      ELSE IF ~FindTablet(c, ks).found
                           THEN ExReturn(called, ExplainError("ErrNoTablet", ks))
                           ELSE [called EXCEPT !.pc = "dial", !.tablet = FindTablet(c, ks).alias]]
    /\ UNCHANGED << outsideExplain, eng >>

\* "c.Vtctld.Dial(ctx)", then the declarations, wg.Add(3) and the three go
\* statements
ExDial(k) ==
    /\ xp[k].pc = "dial"
    /\ LET c == ClusterOf(k)
           called == [xp[k] EXCEPT !.rpcs = @ \cup {Cause(c, "Dial", "")}]
       IN \E ok \in BOOLEAN :
             xp' = [xp EXCEPT ![k] =
                      IF ~ok
                      THEN ExReturn([called EXCEPT !.failures = @ \cup {Cause(c, "Dial", "")}],
                                    RemoteError(c, "Dial", ""))
                      ELSE [called EXCEPT !.pc = "wait", !.wg = Cardinality(ExplainTasks),
                                          !.er = EmptyBag, !.slots = NoSlots,
                                          !.tasks = [t \in ExplainTasks |-> "run"]]]
    /\ UNCHANGED << outsideExplain, eng >>

\* a goroutine of call k is running
ExLive(k, t) == xp[k].pc = "wait" /\ xp[k].tasks[t] = "run"

\* the goroutine t of call k made the remote call
ExCalled(k, t, call, arg) ==
    [xp[k] EXCEPT !.rpcs = @ \cup {Cause(ClusterOf(k), call, arg)}]

\* the goroutine records err and returns; the deferred wg.Done() runs
ExRecord(call, t, err) ==
    [call EXCEPT !.er = RecordError(@, err), !.tasks[t] = "failed", !.wg = @ - 1]

\* the goroutine assigns its variable and returns; the deferred wg.Done() runs
ExAssign(call, t, v) ==
    [call EXCEPT !.slots[SlotOf(t)] = v, !.wrote[SlotOf(t)] = @ \cup {t},
                 !.tasks[t] = "ok", !.wg = @ - 1]

\* the remote call of goroutine t failed
ExRemoteFailure(k, t, call, arg) ==
    ExRecord([ExCalled(k, t, call, arg) EXCEPT
                 !.failures = @ \cup {Cause(ClusterOf(k), call, arg)}],
             t, RemoteError(ClusterOf(k), call, arg))

\* a nil pointer is dereferenced in a goroutine: the process is gone, and
\* with it every call that is under way
Crash ==
    [j \in Callers |-> IF xp[j].pc \in {"idle", "done"} THEN xp[j]
                       ELSE [xp[j] EXCEPT !.pc = "crashed"]]

\* the GetSchema goroutine
ExGetSchema(k) ==
    /\ ExLive(k, "schema")
    /\ \E ok \in BOOLEAN, shape \in EmptyShapes :
          LET alias == xp[k].tablet
              res == SchemaOf(alias, shape)
          IN xp' = IF ~ok
                   THEN [xp EXCEPT ![k] = ExRemoteFailure(k, "schema", "GetSchema", alias)]
                   ELSE IF res.resp # "ok"
                        THEN Crash
                        ELSE [xp EXCEPT ![k] = ExAssign(ExCalled(k, "schema", "GetSchema", alias),
                                                        "schema", JoinSchemas(res.tables))]
    /\ UNCHANGED << outsideExplain, eng >>

\* the GetSrvVSchema goroutine; the response may lack the keyspace
ExGetSrvVSchema(k) ==
    /\ ExLive(k, "srvVSchema")
    /\ \E out \in {"fail", "missing", "nomarshal", "ok"} :
          LET cell == CellOf(xp[k].tablet)
              ks == xp[k].req.Keyspace
              called == ExCalled(k, "srvVSchema", "GetSrvVSchema", cell)
          IN xp' = [xp EXCEPT ![k] =
                      CASE out = "fail" ->
                             ExRemoteFailure(k, "srvVSchema", "GetSrvVSchema", cell)
                        [] out = "missing" ->
                             ExRecord([called EXCEPT !.lacks = TRUE], "srvVSchema",
                                      ExplainError("ErrNoSrvVSchema", ks))
                        [] out = "nomarshal" ->
                             ExRecord(called, "srvVSchema", ExplainError("json.Marshal", ks))
                        [] OTHER ->
                             ExAssign(called, "srvVSchema", Keyed(ks, VSchemaJSON(ClusterOf(k), ks)))]
    /\ UNCHANGED << outsideExplain, eng >>

\* the FindAllShardsInKeyspace goroutine
ExFindAllShards(k) ==
    /\ ExLive(k, "shardMap")
    /\ \E out \in {"fail", "nomarshal", "ok"} :
          LET ks == xp[k].req.Keyspace
              called == ExCalled(k, "shardMap", "FindAllShardsInKeyspace", ks)
          IN xp' = [xp EXCEPT ![k] =
                      CASE out = "fail" ->
                             ExRemoteFailure(k, "shardMap", "FindAllShardsInKeyspace", ks)
                        [] out = "nomarshal" ->
                             ExRecord(called, "shardMap", ExplainError("json.Marshal", ks))
                        [] OTHER ->
                             ExAssign(called, "shardMap",
                                      Keyed(ks, ShardsJSON(ShardsOf(ClusterOf(k), ks))))]
    /\ UNCHANGED << outsideExplain, eng >>

\* wg.Wait() passed, then "if er.HasErrors() { return nil, er.Error() }"
ExWait(k) ==
    /\ xp[k].pc = "wait"
    /\ WaitOver(xp[k].wg)
    /\ xp' = [xp EXCEPT ![k] =
                IF HasErrors(xp[k].er) THEN ExReturn(xp[k], AllErrors(xp[k].er))
                ELSE [xp[k] EXCEPT !.pc = "init"]]
    /\ UNCHANGED << outsideExplain, eng >>

\* vtexplain.Init keeps what it is given in the package
EngineInit(srvVSchema, schema, shardMap) ==
    [inited |-> TRUE, srvVSchema |-> srvVSchema, schema |-> schema, shardMap |-> shardMap]

\* vtexplain.Run plans the query against what the package holds
Run(e, sql) ==
    [sql |-> sql, srvVSchema |-> e.srvVSchema, schema |-> e.schema, shardMap |-> e.shardMap]

\* vtexplain.ExplainsAsText
ExplainsAsText(plans) == << "text", plans >>

\* "vtexplain.Init(srvVSchema, schema, shardMap, opts)": the three variables
\* are read here
ExInit(k) ==
    /\ xp[k].pc = "init"
    /\ LET read == [xp[k] EXCEPT !.read = TRUE, !.inited = TRUE] IN
       \/ /\ eng' = EngineInit(xp[k].slots["srvVSchema"], xp[k].slots["schema"],
                               xp[k].slots["shardMap"])
          /\ xp' = [xp EXCEPT ![k] = [read EXCEPT !.pc = "run"]]
       \/ /\ eng' \in {eng, NoEngine}
          /\ xp' = [xp EXCEPT ![k] = ExReturn(read, ExplainError("vtexplain.Init", ""))]
    /\ UNCHANGED outsideExplain

\* "plans, err := vtexplain.Run(req.Sql)" and the response
ExRun(k) ==
    /\ xp[k].pc = "run"
    /\ LET ran == [xp[k] EXCEPT !.ran = TRUE] IN
       \E ok \in BOOLEAN :
          xp' = [xp EXCEPT ![k] =
                   IF ok
                   THEN [ran EXCEPT !.pc = "done",
                                    !.ret = [nil |-> FALSE,
                                             val |-> ExplainsAsText(Run(eng, xp[k].req.Sql)),
                                             err |-> NoError]]
                   ELSE ExReturn(ran, ExplainError("vtexplain.Run", xp[k].req.Sql))]
    /\ UNCHANGED << outsideExplain, eng >>

NextExplain ==
    \/ \E k \in Callers : VTExplain(k)
    \/ \E k \in Callers : ExFindTablet(k)
    \/ \E k \in Callers : ExDial(k)
    \/ \E k \in Callers : ExGetSchema(k)
    \/ \E k \in Callers : ExGetSrvVSchema(k)
    \/ \E k \in Callers : ExFindAllShards(k)
    \/ \E k \in Callers : ExWait(k)
    \/ \E k \in Callers : ExInit(k)
    \/ \E k \in Callers : ExRun(k)

SpecExplain == Init /\ [][NextExplain]_vars

(***************************************************************************)
(* Properties.                                                             *)
(***************************************************************************)
Returned == pc = "done"

ListOps == {"GetGates", "GetKeyspaces", "GetSchemas", "GetTablets"}

KTasksDone(i) == \A j \in DOMAIN tasks[i].kt : tasks[i].kt[j].pc = "done"

AllTasksDone == \A i \in DOMAIN tasks : tasks[i].pc = "done" /\ KTasksDone(i)

BagOfSeq(s) == [x \in Range(s) |-> Cardinality({k \in DOMAIN s : s[k] = x})]

RECURSIVE Partials(_)
Partials(ts) == IF ts = << >> THEN << >> ELSE Head(ts).res \o Partials(Tail(ts))

\* C1: all-or-nothing.  Once a handler has returned, a failed remote call in
\* any cluster branch or nested keyspace branch means a nil result and the
\* combined error (in GetTablet too, whatever the number of matches), and a
\* result is never returned together with an error.
AllOrNothing ==
    Returned =>
        /\ failures # {} => ret.nil /\ ret.err.kind = "aggregate"
        /\ ret.err # NoError => ret.nil /\ ret.val = << >>
        /\ ~ret.nil => ret.err = NoError

\* a keyspace branch of GetKeyspaces failed after a sibling had merged its
\* keyspaces into the accumulator, and the handler returned
WitAllOrNothing ==
    /\ Returned
    /\ op = "GetKeyspaces"
    /\ \E f \in failures : f.call = "FindAllShardsInKeyspace"
    /\ acc # << >>
    /\ ret.nil

\* the first remote call of a cluster goroutine
FirstCall(o, c) ==
    CASE o = "GetGates" -> Cause(c, "DiscoverVTGates", "")
      [] o = "GetKeyspaces" -> Cause(c, "Dial", "")
      [] OTHER -> Cause(c, "GetTablets", "")

\* C2: run-to-completion barrier.  A handler that has returned launched one
\* goroutine per resolved cluster, every one of them made its remote call
\* and has finished, with all its keyspace goroutines; a cluster goroutine
\* that is past its inner barrier launched one goroutine per keyspace and
\* all of them have finished.
RunToCompletion ==
    /\ Returned =>
          /\ Len(tasks) = Len(clusters)
          /\ AllTasksDone
          /\ wg = 0
          /\ \A i \in DOMAIN tasks : FirstCall(op, tasks[i].c) \in rpcs
    /\ \A i \in DOMAIN tasks :
          tasks[i].pc \in {"lock", "cs", "done"} /\ op \in {"GetKeyspaces", "GetSchemas"} =>
              /\ KTasksDone(i)
              /\ tasks[i].kwg = 0
              /\ tasks[i].kt # << >> => Len(tasks[i].kt) = Len(tasks[i].resp)

\* GetSchemas returned after one cluster branch failed while a sibling went
\* through its keyspace goroutines and merged a schema
WitRunToCompletion ==
    /\ Returned
    /\ op = "GetSchemas"
    /\ failures # {}
    /\ \E i \in DOMAIN tasks : tasks[i].kt # << >> /\ tasks[i].res # << >>
    /\ \E i \in DOMAIN tasks : tasks[i].kt = << >> /\ tasks[i].res = << >>

\* C3: no lost or duplicated results.  When no call failed, the list a list
\* handler returns is, as a multiset, the union of the partial results of
\* its cluster goroutines, and the partial result of a cluster goroutine
\* with keyspace goroutines is the union of theirs; at most one goroutine
\* is inside the critical section of an accumulator at a time.
NoLostResults ==
    /\ Returned /\ op \in ListOps /\ failures = {} =>
          /\ ~ret.nil
          /\ BagOfSeq(ret.val) = BagOfSeq(Partials(tasks))
          /\ \A i \in DOMAIN tasks :
                tasks[i].kt # << >> =>
                    BagOfSeq(tasks[i].res) = BagOfSeq(Partials(tasks[i].kt))
    /\ Cardinality({i \in DOMAIN tasks : tasks[i].pc = "cs"}) <= 1
    /\ \A i \in DOMAIN tasks :
          /\ tasks[i].pc = "cs" => m = i
          /\ Cardinality({j \in DOMAIN tasks[i].kt : tasks[i].kt[j].pc = "cs"}) <= 1
          /\ \A j \in DOMAIN tasks[i].kt : tasks[i].kt[j].pc = "cs" => tasks[i].km = j

\* GetKeyspaces returned the keyspaces of two clusters, merged in another
\* order than the goroutines were launched in
WitNoLostResults ==
    /\ Returned
    /\ op = "GetKeyspaces"
    /\ failures = {}
    /\ Len(tasks) = 2
    /\ Len(ret.val) >= 3
    /\ ret.val[1].Cluster # tasks[1].c

\* the number of tablets with this hostname in the selected clusters
RECURSIVE Matches(_, _)
Matches(cs, host) ==
    IF cs = {} THEN 0
    ELSE LET c == CHOOSE x \in cs : TRUE IN
         Len(FoundTablets(TabletsOf(c), host)) + Matches(cs \ {c}, host)

\* C4: tablet resolution is three-way.  When every selected cluster listed
\* its tablets, GetTablet fails with not-found if no tablet of the selected
\* clusters has the hostname, returns the tablet if exactly one has, and
\* fails with ambiguous if two or more have.
ThreeWayResolution ==
    Returned /\ op = "GetTablet" /\ failures = {} =>
        LET n == Matches(Range(clusters), req.Hostname) IN
        /\ n = 0 => ret.nil /\ ret.err.kind = "ErrNoTablet"
        /\ n = 1 => /\ ~ret.nil
                    /\ ret.err = NoError
                    /\ Len(ret.val) = 1
                    /\ ret.val[1].Hostname = req.Hostname
        /\ n >= 2 => ret.nil /\ ret.err.kind = "ErrAmbiguousTablet"

\* C5: the failure for two or more matches has another error code than the
\* failure for no match.
AmbiguousOtherCode ==
    Returned /\ op = "GetTablet" /\ ret.err.kind = "ErrAmbiguousTablet" =>
        ret.err.code # NoTabletError(req.Hostname, ids).code

\* the identifiers of the filter that the registry knows, in filter order
KnownIDs(fids) == SelectSeq(fids, LAMBDA id : id \in DOMAIN api.clusterMap)

\* C6: cluster resolution.  For an empty filter the handler works on the
\* full configured list, and the identifiers are all the known ones; for a
\* non-empty filter it works on the clusters of the known identifiers, in
\* the order of the filter, and an unknown identifier causes no error.
ClusterResolution ==
    pc # "idle" =>
        /\ req.ClusterIds = << >> =>
              /\ clusters = api.clusters
              /\ op = "GetTablet" =>
                    /\ Range(ids) = DOMAIN api.clusterMap
                    /\ Len(ids) = Cardinality(DOMAIN api.clusterMap)
        /\ req.ClusterIds # << >> =>
              LET known == KnownIDs(req.ClusterIds) IN
              /\ Len(clusters) = Len(known)
              /\ \A k \in DOMAIN known : clusters[k] = api.clusterMap[known[k]]
        /\ Returned /\ op \in ListOps /\ failures = {} => ret.err = NoError

\* a filter naming the third cluster before the first: the handler worked
\* on them in filter order, which is not the registry order
WitClusterResolution ==
    /\ Returned
    /\ req.ClusterIds = << "c3", "c1" >>
    /\ clusters = << ClusterC, ClusterA >>
    /\ ret.err = NoError

OnlyUnknown(fids) == fids # << >> /\ \A k \in DOMAIN fids : fids[k] \notin DOMAIN api.clusterMap

\* C7: a non-empty filter of unknown identifiers only resolves to no
\* cluster; no goroutine is launched and no remote call is issued.
UnknownOnlyNoCalls ==
    pc # "idle" /\ OnlyUnknown(req.ClusterIds) =>
        /\ clusters = << >>
        /\ tasks = << >>
        /\ rpcs = {}

\* GetSchemas returned for a filter of two unknown identifiers
WitUnknownOnlyNoCalls ==
    /\ Returned
    /\ op = "GetSchemas"
    /\ Len(req.ClusterIds) = 2
    /\ OnlyUnknown(req.ClusterIds)
    /\ ~ret.nil
    /\ ret.val = << >>

\* the positions of the serving tablets of a keyspace in a tablet list
ServingAt(ts, ks) == {k \in DOMAIN ts : ts[k].Keyspace = ks /\ ts[k].State = SERVING}

Last(S) == CHOOSE k \in S : \A l \in S : l <= k

OwedSchemas(c) ==
    {SchemaItem(c, ks, [tables |-> TablesOf(TabletsOf(c)[Last(ServingAt(TabletsOf(c), ks))].Alias)]) :
        ks \in {k \in Range(KeyspacesOf(c)) :
                   /\ ServingAt(TabletsOf(c), k) # {}
                   /\ TablesOf(TabletsOf(c)[Last(ServingAt(TabletsOf(c), k))].Alias) # << >>}}

\* C9: schema filtering.  Every entry of a GetSchemas result has at least
\* one table definition; the result holds exactly the entries of the
\* keyspaces that have tables, once per goroutine of their cluster; and if
\* no call fails the handler returns no error, even with keyspaces whose
\* schema is absent or empty and clusters without keyspaces.
SchemaFiltering ==
    Returned /\ op = "GetSchemas" =>
        /\ failures = {} => ~ret.nil /\ ret.err = NoError
        /\ ~ret.nil =>
              /\ \A k \in DOMAIN ret.val : Len(ret.val[k].TableDefinitions) >= 1
              /\ \A k \in DOMAIN ret.val : ret.val[k] \in OwedSchemas(ret.val[k].Cluster)
              /\ \A i \in DOMAIN tasks : \A e \in OwedSchemas(tasks[i].c) :
                    Cardinality({k \in DOMAIN ret.val : ret.val[k] = e}) =
                    Cardinality({l \in DOMAIN tasks : tasks[l].c = tasks[i].c})

\* all three clusters: A with ks1 of two tables, B without keyspaces, C
\* whose keyspace has a schema without tables; one entry, for A/ks1
WitSchemaFiltering ==
    /\ Returned
    /\ op = "GetSchemas"
    /\ req.ClusterIds = << >>
    /\ Cause(ClusterC, "GetSchema", "z1") \in rpcs
    /\ Cause(ClusterB, "GetKeyspaces", "") \in rpcs
    /\ ret.val = << SchemaItem(ClusterA, "ks1", [tables |-> << "t1", "t2" >>]) >>
    /\ ret.err = NoError

\* C10: a keyspace without serving tablet is skipped silently.  Its
\* goroutine issues no Dial and no GetSchema, records nothing, and ends
\* without a schema; the result has no entry for it, and has the entries of
\* the other keyspaces of the cluster.
NoServingSkipped ==
    op = "GetSchemas" =>
        \A i \in DOMAIN tasks : \A j \in DOMAIN tasks[i].kt :
            LET c == tasks[i].c
                ks == tasks[i].kt[j].ks
                ts == tasks[i].tablets IN
            ServingAt(ts, ks) = {} =>
                /\ tasks[i].kt[j].pc \in {"call", "done"}
                /\ tasks[i].kt[j].res = << >>
                /\ Cause(c, "Dial", ks) \notin rpcs
                /\ \A k \in DOMAIN ts :
                      ts[k].Keyspace = ks => Cause(c, "GetSchema", ts[k].Alias) \notin rpcs
                /\ \A e \in BagToSet(tasks[i].ker) : \A x \in BagToSet(e.causes) : x.arg # ks
                /\ \A k \in DOMAIN tasks[i].kacc : tasks[i].kacc[k].Keyspace # ks
                /\ Returned /\ ~ret.nil =>
                      /\ \A k \in DOMAIN ret.val :
                            ~(ret.val[k].Cluster = c /\ ret.val[k].Keyspace = ks)
                      /\ \A e \in OwedSchemas(c) : \E k \in DOMAIN ret.val : ret.val[k] = e

\* GetSchemas returned the schema of A/ks1 although ks2 of the same cluster
\* has no serving tablet
WitNoServingSkipped ==
    /\ Returned
    /\ op = "GetSchemas"
    /\ ~ret.nil
    /\ \E i \in DOMAIN tasks :
          /\ tasks[i].c = ClusterA
          /\ \E j \in DOMAIN tasks[i].kt :
                /\ tasks[i].kt[j].ks = "ks2"
                /\ ServingAt(tasks[i].tablets, "ks2") = {}
                /\ tasks[i].kt[j].pc = "done"
    /\ \E k \in DOMAIN ret.val : ret.val[k].Keyspace = "ks1"

(***************************************************************************)
(* Properties of VTExplain.                                                *)
(***************************************************************************)
ExReturned(k) == xp[k].pc = "done"

ExStarted(k) == xp[k].pc # "idle"

NoTaskStarted(k) == xp[k].wg = 0 /\ \A t \in ExplainTasks : xp[k].tasks[t] = "none"

\* the text owed to a request with an empty field
MissingText(r) ==
    IF r.Cluster = "" THEN "cluster ID is required"
    ELSE IF r.Keyspace = "" THEN "keyspace name is required"
    ELSE "SQL query is required"

Incomplete(r) == r.Cluster = "" \/ r.Keyspace = "" \/ r.Sql = ""

\* C11: explain validation.  A VTExplain call whose request has an empty
\* cluster id, keyspace name or SQL text has returned as soon as it has
\* started, with no response and an invalid-request error whose text names
\* the first empty field (each field has its own text; a request that lacks
\* only the SQL gets "SQL query is required"); the call has issued no remote
\* call and started no goroutine.
ExplainValidation ==
    \A k \in Callers :
        ExStarted(k) /\ Incomplete(xp[k].req) =>
            /\ ExReturned(k)
            /\ xp[k].ret.nil
            /\ xp[k].ret.err.kind = "ErrInvalidRequest"
            /\ BagToSet(xp[k].ret.err.causes) =
                   {[c |-> "", call |-> "ErrInvalidRequest", arg |-> MissingText(xp[k].req)]}
            /\ xp[k].rpcs = {}
            /\ NoTaskStarted(k)

\* a request that lacks only its SQL was refused with the SQL text while the
\* other call is past its validation
WitExplainValidation ==
    /\ xp["p"].req = [Cluster |-> "c1", Keyspace |-> "ks1", Sql |-> ""]
    /\ ExReturned("p")
    /\ xp["p"].ret.err = ExplainError("ErrInvalidRequest", "SQL query is required")
    /\ xp["p"].rpcs = {}
    /\ xp["q"].pc = "wait"

Complete(r) == ~Incomplete(r)

\* C12: a VTExplain call whose request is complete but names a cluster the
\* registry does not know has returned as soon as it has started, with no
\* response and the unsupported-cluster error; that error is of another
\* kind than the tablet not-found errors of GetTablet and of the tablet
\* lookup, and the call has issued no remote call.
UnknownClusterUnsupported ==
    \A k \in Callers :
        /\ ExStarted(k)
        /\ Complete(xp[k].req)
        /\ xp[k].req.Cluster \notin DOMAIN api.clusterMap
        => /\ ExReturned(k)
           /\ xp[k].ret.nil
           /\ xp[k].ret.err.kind = "ErrUnsupportedCluster"
           /\ xp[k].ret.err.kind # NoTabletError("h0", << >>).kind
           /\ xp[k].ret.err.code # NoTabletError("h0", << >>).code
           /\ xp[k].ret.err.kind # ExplainError("ErrNoTablet", xp[k].req.Keyspace).kind
           /\ xp[k].rpcs = {}
           /\ NoTaskStarted(k)

\* an unknown cluster was refused while the other call, for a known cluster
\* without a usable tablet, got the tablet not-found error
WitUnknownClusterUnsupported ==
    /\ xp["p"].req = [Cluster |-> "zz", Keyspace |-> "ks1", Sql |-> "q1"]
    /\ ExReturned("p")
    /\ xp["p"].ret.err = ErrUnsupportedCluster
    /\ xp["q"].req.Cluster = "c1"
    /\ ExReturned("q")
    /\ xp["q"].ret.err.kind = "ErrNoTablet"

TaskOver(k, t) == xp[k].tasks[t] \in {"ok", "failed"}

\* what the error of a serving vschema without the keyspace reports
NoSrvVSchemaCause(ks) == [c |-> "", call |-> "ErrNoSrvVSchema", arg |-> ks]

\* C13: when the GetSrvVSchema response of a VTExplain call lacks the
\* keyspace of the request, the missing-vschema error naming that keyspace
\* is recorded and the call never reaches the engine; once the call has
\* returned it has no response, its error carries that cause, and the
\* GetSchema and FindAllShardsInKeyspace goroutines have both made their
\* call and finished (nothing cancels them).
MissingVSchemaWaits ==
    \A k \in Callers :
        xp[k].lacks =>
            LET ks == xp[k].req.Keyspace IN
            /\ xp[k].tasks["srvVSchema"] = "failed"
            /\ ExplainError("ErrNoSrvVSchema", ks) \in BagToSet(xp[k].er)
            /\ xp[k].pc \in {"wait", "done", "crashed"}
            /\ ~xp[k].inited
            /\ ExReturned(k) =>
                  /\ xp[k].ret.nil
                  /\ NoSrvVSchemaCause(ks) \in BagToSet(xp[k].ret.err.causes)
                  /\ TaskOver(k, "schema") /\ TaskOver(k, "shardMap")
                  /\ Cause(ClusterOf(k), "GetSchema", xp[k].tablet) \in xp[k].rpcs
                  /\ Cause(ClusterOf(k), "FindAllShardsInKeyspace", ks) \in xp[k].rpcs

\* a call whose only failure is the missing keyspace has returned that
\* error after its two other goroutines succeeded
WitMissingVSchemaWaits ==
    /\ xp["p"].lacks
    /\ ExReturned("p")
    /\ xp["p"].tasks["schema"] = "ok"
    /\ xp["p"].tasks["shardMap"] = "ok"
    /\ BagToSet(xp["p"].ret.err.causes) = {NoSrvVSchemaCause("ks1")}

\* C14: explain assembly is all-or-nothing.  A VTExplain call with a failed
\* goroutine never calls vtexplain.Init or vtexplain.Run, and once it has
\* returned it has no response and its error is the combination of all the
\* recorded errors; a call that has called vtexplain.Init has three
\* goroutines that all finished successfully.
ExplainAllOrNothing ==
    \A k \in Callers :
        /\ (\E t \in ExplainTasks : xp[k].tasks[t] = "failed") =>
              /\ ~xp[k].inited
              /\ ~xp[k].ran
              /\ xp[k].pc \notin {"init", "run"}
              /\ ExReturned(k) =>
                    /\ xp[k].ret.nil
                    /\ xp[k].er # EmptyBag
                    /\ xp[k].ret.err = AllErrors(xp[k].er)
        /\ xp[k].inited \/ xp[k].pc = "init" => \A t \in ExplainTasks : xp[k].tasks[t] = "ok"

\* a call returned the error of its failed shard lookup after its two other
\* goroutines succeeded, and the engine was never initialized
WitExplainAllOrNothing ==
    /\ ExReturned("p")
    /\ xp["p"].tasks = [t \in ExplainTasks |-> IF t = "shardMap" THEN "failed" ELSE "ok"]
    /\ xp["p"].ret.err.kind = "aggregate"
    /\ ~xp["p"].inited
    /\ ~eng.inited

\* C16: in a VTExplain call each of the three variables is assigned by no
\* goroutine but its own, and when the variables are read (handed to
\* vtexplain.Init) all three goroutines are over and every variable has
\* been assigned by its goroutine.
SlotDiscipline ==
    \A k \in Callers :
        /\ \A v \in ExplainTasks : xp[k].wrote[v] \subseteq {v}
        /\ xp[k].read =>
              /\ \A t \in ExplainTasks : TaskOver(k, t)
              /\ \A v \in ExplainTasks : xp[k].wrote[v] = {v}

\* a call has read its three variables, each assigned by its own goroutine,
\* while the goroutines of the other call are still running
WitSlotDiscipline ==
    /\ xp["p"].read
    /\ \A v \in ExplainTasks : xp["p"].wrote[v] = {v}
    /\ xp["q"].pc = "wait"
    /\ \E t \in ExplainTasks : xp["q"].tasks[t] = "run"
    /\ \E t \in ExplainTasks : xp["q"].tasks[t] = "ok"

\* the response a call is owed: the plan for its query against its own
\* three variables
OwnPlan(k) ==
    ExplainsAsText(Run(EngineInit(xp[k].slots["srvVSchema"], xp[k].slots["schema"],
                                  xp[k].slots["shardMap"]),
                       xp[k].req.Sql))

\* C20: concurrent explain requests do not interfere.  The response of a
\* VTExplain call that returned one is the plan computed for its query
\* against the three artifacts that same call fetched.
NoExplainInterference ==
    \A k \in Callers :
        ExReturned(k) /\ ~xp[k].ret.nil => xp[k].ret.val = OwnPlan(k)

(***************************************************************************)
(* Properties of error propagation and of the search scope.                *)
(***************************************************************************)
\* the failed calls an error recorder reports
Reported(errs) == BagToSet(Causes(errs, BagToSet(errs)))

\* the failed calls still held by the recorder of a getSchemas under way
Pending == UNION {Reported(tasks[i].ker) : i \in {j \in DOMAIN tasks : tasks[j].pc # "done"}}

\* C17: no failure is swallowed.  Every failed remote call of a request,
\* the per-keyspace calls of GetKeyspaces and of getSchemas included, is
\* reported by the recorder of the handler, or by the recorder of a
\* getSchemas that has not returned yet; once the handler has returned, the
\* failed calls are exactly the causes its error carries, and one failed
\* call, leaf or inner, means no result.
NoFailureSwallowed ==
    /\ failures \subseteq Reported(er) \cup Pending
    /\ Returned =>
          /\ failures \subseteq Reported(er)
          /\ failures # {} =>
                /\ ret.nil
                /\ ret.err.kind = "aggregate"
                /\ BagToSet(ret.err.causes) = failures

\* GetSchemas over all clusters returned an error with two causes: the
\* GetSchema call of a keyspace of cluster A (inner) and a call of the
\* goroutine of cluster C itself (leaf)
WitNoFailureSwallowed ==
    /\ Returned
    /\ op = "GetSchemas"
    /\ Cardinality(failures) = 2
    /\ Cause(ClusterA, "GetSchema", "a2") \in failures
    /\ Cause(ClusterC, "GetKeyspaces", "") \in failures
    /\ BagToSet(ret.err.causes) = failures

\* the identifiers of the clusters a request works on
Searched == {clusters[i].ID : i \in DOMAIN clusters}

\* C18: the search scope of a GetTablet not-found or ambiguous failure is
\* the identifiers of the clusters that were searched: the identifiers the
\* failure carries are those of the clusters the request resolved to, no
\* more and no less.
ScopeIsSearched ==
    /\ Returned
    /\ op = "GetTablet"
    /\ ret.err.kind \in {"ErrNoTablet", "ErrAmbiguousTablet"}
    => Range(ret.err.ids) = Searched

(***************************************************************************)
(* An aggregate read made twice.  The first response is remembered, the    *)
(* same request is served again from scratch against the same backends.    *)
(***************************************************************************)
RepeatFilters == UNION {[1..n -> FilterIDs] : n \in 0..MaxRepeatFilterLen}

\* the first of the two requests
FirstRun == \E o \in ListOps, fids \in RepeatFilters : Begin(o, fids, "", FALSE)

\* the first response is delivered and the same request arrives again
SecondRun ==
    /\ pc = "done"
    /\ prev.runs = 0
    /\ prev' = [runs |-> 1, nil |-> ret.nil, val |-> BagOfSeq(ret.val), clean |-> failures = {}]
    /\ Enter(op, req.ClusterIds, "", FALSE)
    /\ UNCHANGED << api, pick, reg, xp, eng, cmd >>

NextTwice ==
    \/ FirstRun
    \/ SecondRun
    \/ Launch
    \/ GetGatesReturn
    \/ GetKeyspacesReturn
    \/ GetSchemasReturn
    \/ GetTabletsReturn
    \/ \E i \in DOMAIN tasks : Lock(i)
    \/ \E i \in DOMAIN tasks : AppendUnlock(i)
    \/ \E i \in DOMAIN tasks : GatesDiscover(i)
    \/ \E i \in DOMAIN tasks : TabletsList(i)
    \/ \E i \in DOMAIN tasks : KsDial(i)
    \/ \E i \in DOMAIN tasks : KsList(i)
    \/ \E i \in DOMAIN tasks : KsSpawn(i)
    \/ \E i \in DOMAIN tasks : KsJoin(i)
    \/ \E i \in DOMAIN tasks : ScTablets(i)
    \/ \E i \in DOMAIN tasks : ScDial(i)
    \/ \E i \in DOMAIN tasks : ScList(i)
    \/ \E i \in DOMAIN tasks : ScSpawn(i)
    \/ \E i \in DOMAIN tasks : ScJoin(i)
    \/ \E i \in DOMAIN tasks : \E j \in DOMAIN tasks[i].kt : KsFindShards(i, j)
    \/ \E i \in DOMAIN tasks : \E j \in DOMAIN tasks[i].kt : ScKeyspace(i, j)
    \/ \E i \in DOMAIN tasks : \E j \in DOMAIN tasks[i].kt : KLock(i, j)
    \/ \E i \in DOMAIN tasks : \E j \in DOMAIN tasks[i].kt : KAppendUnlock(i, j)

SpecTwice == Init /\ [][NextTwice]_vars

\* C15: idempotence of aggregate reads.  When GetGates, GetKeyspaces,
\* GetSchemas or GetTablets is served twice with the same filter and no
\* remote call fails in either run, both runs return a result and the two
\* results hold the same items the same number of times, whatever the
\* order in which the goroutines of each run appended them.
Idempotent ==
    Returned /\ prev.runs = 1 /\ prev.clean /\ failures = {} =>
        /\ ~prev.nil
        /\ ~ret.nil
        /\ BagOfSeq(ret.val) = prev.val

\* GetKeyspaces over all clusters was served twice without failure; the
\* second result, of three keyspaces, starts with the keyspace of cluster C
WitIdempotent ==
    /\ Returned
    /\ prev.runs = 1
    /\ prev.clean
    /\ failures = {}
    /\ op = "GetKeyspaces"
    /\ req.ClusterIds = << >>
    /\ Len(ret.val) = 3
    /\ ret.val[1] = KeyspaceItem(ClusterC, "ks3")
    /\ BagOfSeq(ret.val) = prev.val

(***************************************************************************)
(* NewAPI on an arbitrary cluster list, followed by GetClusters.           *)
(***************************************************************************)
\* the clusters a configuration may list; two of them may share an identifier
ClusterPool == [ID : {"c1", "c2", "c3"}, Name : {"A", "B"}]

ConfigLists == UNION {[1..n -> ClusterPool] : n \in 0..MaxConfigLen}

\* the arrangements sort.Sort may leave the list in: it is not stable
Sorted(cs) ==
    {s \in [DOMAIN cs -> Range(cs)] :
        /\ BagOfSeq(s) = BagOfSeq(cs)
        /\ \A i \in DOMAIN s : \A j \in DOMAIN s : i < j => IDRank(s[i].ID) <= IDRank(s[j].ID)}

InitNewAPI ==
    /\ \E cs \in Configs : api = NewAPI(cs)
    /\ Idle
    /\ pick = NoPick
    /\ prev = NoPrev
    /\ \E cs \in ConfigLists : reg = [NoReg EXCEPT !.input = cs]
    /\ xp = [k \in Callers |-> NewCall]
    /\ eng = NoEngine
    /\ cmd = NoCmd

\* NewAPI(clusters, ...): the map is filled in list order, the list is sorted
NewAPICall ==
    /\ ~reg.built
    /\ \E s \in Sorted(reg.input) :
          reg' = [reg EXCEPT !.built = TRUE, !.clusters = s,
                             !.clusterMap = NewAPI(reg.input).clusterMap]
    /\ UNCHANGED << api, op, req, pc, clusters, ids, next, wg, er, m, acc, tasks, rpcs, failures,
                    ret, pick, prev, xp, eng, cmd >>

\* GetClusters: one entry per cluster of api.clusters, in that order
GetClusters ==
    /\ reg.built
    /\ ~reg.listed
    /\ reg' = [reg EXCEPT !.listed = TRUE,
                          !.out = [i \in DOMAIN reg.clusters |->
                                      [Id |-> reg.clusters[i].ID, Name |-> reg.clusters[i].Name]],
                          !.err = NoError]
    /\ UNCHANGED << api, op, req, pc, clusters, ids, next, wg, er, m, acc, tasks, rpcs, failures,
                    ret, pick, prev, xp, eng, cmd >>

NextNewAPI ==
    \/ NewAPICall
    \/ GetClusters

SpecNewAPI == InitNewAPI /\ [][NextNewAPI]_vars

\* C19: for any cluster list NewAPI is given, the registry's list is
\* strictly ascending by identifier, the lookup map has one entry per listed
\* cluster, namely that cluster, and GetClusters returns every cluster of
\* the given list in the registry's order, with no remote call and no error.
RegistryWellFormed ==
    reg.built =>
        /\ \A i \in DOMAIN reg.clusters : \A j \in DOMAIN reg.clusters :
              i < j => IDRank(reg.clusters[i].ID) < IDRank(reg.clusters[j].ID)
        /\ Cardinality(DOMAIN reg.clusterMap) = Len(reg.clusters)
        /\ \A i \in DOMAIN reg.clusters : reg.clusterMap[reg.clusters[i].ID] = reg.clusters[i]
        /\ reg.listed =>
              /\ Len(reg.out) = Len(reg.input)
              /\ \A i \in DOMAIN reg.out : reg.out[i].Id = reg.clusters[i].ID
              /\ reg.rpcs = {}
              /\ reg.err = NoError

(***************************************************************************)
(* Properties of filters that repeat an identifier.                        *)
(***************************************************************************)
\* C22: whatever the filter, also one that names a known identifier more
\* than once, no two goroutines of a request work on the same cluster, a
\* returned list holds no item twice, and GetTablet does not fail with
\* ambiguous for a hostname that exactly one tablet of the selected
\* clusters has.
OneTaskPerCluster ==
    /\ \A i \in DOMAIN tasks : \A j \in DOMAIN tasks : i # j => tasks[i].c # tasks[j].c
    /\ Returned /\ op \in ListOps /\ ~ret.nil =>
          \A i \in DOMAIN ret.val : \A j \in DOMAIN ret.val : i # j => ret.val[i] # ret.val[j]
    /\ Returned /\ op = "GetTablet" /\ Matches(Range(clusters), req.Hostname) = 1 =>
          ret.err.kind # "ErrAmbiguousTablet"

(***************************************************************************)
(* Termination.  A goroutine that can take a step eventually takes one:    *)
(* the Go scheduler starves no runnable goroutine, and every remote call   *)
(* is taken to return.                                                     *)
(***************************************************************************)
\* the steps of the aggregate read being served
Serve ==
    \/ Launch
    \/ GetGatesReturn
    \/ GetKeyspacesReturn
    \/ GetSchemasReturn
    \/ GetTabletsReturn
    \/ GetTabletReturn
    \/ \E i \in DOMAIN tasks :
          \/ Lock(i) \/ AppendUnlock(i) \/ GatesDiscover(i) \/ TabletsList(i) \/ TabletFind(i)
          \/ KsDial(i) \/ KsList(i) \/ KsSpawn(i) \/ KsJoin(i)
          \/ ScTablets(i) \/ ScDial(i) \/ ScList(i) \/ ScSpawn(i) \/ ScJoin(i)
          \/ \E j \in DOMAIN tasks[i].kt :
                KsFindShards(i, j) \/ ScKeyspace(i, j) \/ KLock(i, j) \/ KAppendUnlock(i, j)

\* the steps of the VTExplain call of caller k
ExplainStep(k) ==
    \/ ExFindTablet(k)
    \/ ExDial(k)
    \/ ExGetSchema(k)
    \/ ExGetSrvVSchema(k)
    \/ ExFindAllShards(k)
    \/ ExWait(k)
    \/ ExInit(k)
    \/ ExRun(k)

SpecLive == Spec /\ WF_vars(Serve)

SpecExplainLive == SpecExplain /\ \A k \in Callers : WF_vars(ExplainStep(k))

\* every aggregate read that has started returns
AggregatesTerminate == (pc = "launch") ~> (pc = "done")

\* a returned aggregate read holds no lock and owes no completion signal
NothingHeld ==
    Returned =>
        /\ wg = 0
        /\ m = NoHolder
        /\ \A i \in DOMAIN tasks : tasks[i].kwg = 0 /\ tasks[i].km = NoHolder

\* every VTExplain call that has started returns, unless the process dies
ExplainEnds == \A k \in Callers : ExStarted(k) ~> (xp[k].pc \in {"done", "crashed"})

\* C21: every call terminates.  Provided every remote call returns and
\* every runnable goroutine eventually runs, a VTExplain call that has
\* started passes its barrier and returns to its caller (the same for the
\* aggregate reads is AggregatesTerminate under SpecLive).
ExplainTerminates == \A k \in Callers : ExStarted(k) ~> ExReturned(k)

(***************************************************************************)
(* The vtctldclient reparent commands.  Each command parses its arguments, *)
(* makes one remote call on the vtctld client and processes the response.  *)
(* The call either succeeds with a response, or fails; on failure the      *)
(* client hands back a nil response or a response that was partly filled.  *)
(* ret is what RunE returns: "parse", "rpc" (the error of the remote call),*)
(* "marshal" or "nil"; printed is what was written out, in order.          *)
(***************************************************************************)
ReparentCommands ==
    {"EmergencyReparentShard", "InitShardPrimary", "ReparentTablet", "TabletExternallyReparented"}

\* topoproto.ParseKeyspaceShard and topoproto.ParseTabletAlias: an argument
\* either parses or is rejected with an error
KeyspaceShardArgs == {"ks1/-80", "ks1"}

AliasArgs == {"zone1-100", "zone1"}

ParseKeyspaceShard(arg) == arg = "ks1/-80"

ParseTabletAlias(arg) == arg = "zone1-100"

EventLists == UNION {[1..n -> {"e1", "e2"}] : n \in 0..MaxEvents}

\* the command lines: each command with the arguments and flags it reads
ReparentInputs ==
    {[NoArgs EXCEPT !.ksShard = a[1], !.newPrimary = a[2], !.ignore = a[3]] :
        a \in KeyspaceShardArgs \X ({""} \cup AliasArgs)
                \X ({<< >>} \cup {<< x >> : x \in AliasArgs})}

InitShardInputs ==
    {[NoArgs EXCEPT !.ksShard = a[1], !.alias = a[2], !.force = a[3]] :
        a \in KeyspaceShardArgs \X AliasArgs \X BOOLEAN}

TabletInputs == {[NoArgs EXCEPT !.alias = a] : a \in AliasArgs}

InputsOf(name) ==
    CASE name = "EmergencyReparentShard" -> ReparentInputs
      [] name = "InitShardPrimary" -> InitShardInputs
      [] OTHER -> TabletInputs

\* "resp, err := client.X(...)": what the remote call can hand back
Answers(name) ==
    LET full == IF name \in {"EmergencyReparentShard", "InitShardPrimary"}
                THEN {[nil |-> FALSE, Events |-> e, Data |-> ""] : e \in EventLists}
                ELSE {[nil |-> FALSE, Events |-> << >>, Data |-> "tablet"]}
    IN  {[failed |-> FALSE, resp |-> r] : r \in full}
           \cup {[failed |-> TRUE, resp |-> r] : r \in full \cup {NilResponse}}

\* the command returns err to cobra
CmdReturn(c, err) == [c EXCEPT !.pc = "done", !.ret = err]

\* the remote call has been made and has answered
CmdCalled(c, a) == [c EXCEPT !.called = TRUE, !.failed = a.failed, !.resp = a.resp]

\* "for _, event := range resp.Events { ... }": reads the response, a nil
\* response ends the process with a nil pointer dereference
RangeEvents(c) ==
    IF c.resp.nil
    THEN [c EXCEPT !.pc = "crashed", !.read = TRUE, !.crashed = TRUE]
    ELSE [c EXCEPT !.read = TRUE, !.printed = c.resp.Events]

\* "data, err := cli.MarshalJSON(resp)", then "fmt.Printf("%s\n", data)"
PrintJSON(c, marshals) ==
    IF marshals
    THEN CmdReturn([c EXCEPT !.read = TRUE, !.printed = << c.resp.Data >>], "nil")
    ELSE CmdReturn([c EXCEPT !.read = TRUE], "marshal")

\* what a reparent command never touches
outsideReparent ==
    << api, op, req, pc, clusters, ids, next, wg, er, m, acc, tasks, rpcs, failures, ret,
       pick, prev, reg, xp, eng >>

InitReparent ==
    /\ \E cs \in Configs : api = NewAPI(cs)
    /\ Idle
    /\ pick = NoPick
    /\ prev = NoPrev
    /\ reg = NoReg
    /\ xp = [k \in Callers |-> NewCall]
    /\ eng = NoEngine
    /\ \E name \in ReparentCommands : \E args \in InputsOf(name) :
          cmd = [NoCmd EXCEPT !.name = name, !.args = args]

commandEmergencyReparentShard ==
    /\ cmd.pc = "start"
    /\ cmd.name = "EmergencyReparentShard"
    /\ IF \/ ~ParseKeyspaceShard(cmd.args.ksShard)
          \/ cmd.args.newPrimary # "" /\ ~ParseTabletAlias(cmd.args.newPrimary)
          \/ \E i \in DOMAIN cmd.args.ignore : ~ParseTabletAlias(cmd.args.ignore[i])
       THEN cmd' = CmdReturn(cmd, "parse")
       ELSE \E a \in Answers(cmd.name) :
               cmd' = IF a.failed
                      THEN CmdReturn(CmdCalled(cmd, a), "rpc")
                      ELSE CmdReturn(RangeEvents(CmdCalled(cmd, a)), "nil")
    /\ UNCHANGED outsideReparent

commandInitShardPrimary ==
    /\ cmd.pc = "start"
    /\ cmd.name = "InitShardPrimary"
    /\ IF \/ ~ParseKeyspaceShard(cmd.args.ksShard)
          \/ ~ParseTabletAlias(cmd.args.alias)
       THEN cmd' = CmdReturn(cmd, "parse")
       ELSE \E a \in Answers(cmd.name) :
               LET logged == RangeEvents(CmdCalled(cmd, a))
               IN  cmd' = IF logged.crashed
                          THEN logged
                          ELSE CmdReturn(logged, IF a.failed THEN "rpc" ELSE "nil")
    /\ UNCHANGED outsideReparent

\* commandReparentTablet and commandTabletExternallyReparented have the same
\* body around a different remote call
TabletCommand ==
    IF ~ParseTabletAlias(cmd.args.alias)
    THEN cmd' = CmdReturn(cmd, "parse")
    ELSE \E a \in Answers(cmd.name) : \E marshals \in BOOLEAN :
            cmd' = IF a.failed
                   THEN CmdReturn(CmdCalled(cmd, a), "rpc")
                   ELSE PrintJSON(CmdCalled(cmd, a), marshals)

commandReparentTablet ==
    /\ cmd.pc = "start"
    /\ cmd.name = "ReparentTablet"
    /\ TabletCommand
    /\ UNCHANGED outsideReparent

commandTabletExternallyReparented ==
    /\ cmd.pc = "start"
    /\ cmd.name = "TabletExternallyReparented"
    /\ TabletCommand
    /\ UNCHANGED outsideReparent

NextReparent ==
    \/ commandEmergencyReparentShard
    \/ commandInitShardPrimary
    \/ commandReparentTablet
    \/ commandTabletExternallyReparented

SpecReparent == InitReparent /\ [][NextReparent]_vars

\* C23: when the remote call of a reparent command fails, the command
\* returns that error to its caller and has processed nothing of the
\* response: no field of it was read, nothing was written out, and the
\* process did not stop inside the command.
FailedCallReturnsError ==
    cmd.called /\ cmd.failed =>
        /\ cmd.pc = "done"
        /\ cmd.ret = "rpc"
        /\ ~cmd.read
        /\ cmd.printed = << >>
====
